---- MODULE Spec2Model ----
(***************************************************************************)
(* Task lifecycle of the kanban dashboard backend: the task routes of      *)
(* routes/tasks.ts (router.get/post/put/delete) and the handlers of        *)
(* controllers/taskController.ts, over one task store and one user         *)
(* collection, with the socket.io events each handler emits; and the leave *)
(* and project routes of routes/leaves.ts and routes/projects.ts.          *)
(*                                                                         *)
(* Spec        whole requests, one after the other, from an empty store.   *)
(* SpecViews   lists, stats, and one handler suspended at an await while   *)
(*             other requests are served, from a store of two tasks.       *)
(* SpecOrphan  requests around the deletion of a user document.            *)
(* SpecSockets the socket.io handshake and room membership.                *)
(* SpecDelivery task requests while socket.io connections open and close.  *)
(* SpecStatus  the writes of a task's status.                              *)
(* SpecRace    an update suspended at its save while another one lands.    *)
(* SpecRoles   requests with tokens signed before a role change.           *)
(* SpecLeaves  leave requests and the admins' decisions on them.           *)
(* SpecProjects project creates and updates, one of them suspended.        *)
(***************************************************************************)
EXTENDS Integers, Sequences, FiniteSets, TLC

VARIABLES
    users,      \* the User collection: _id -> [role, isActive]
    tasks,      \* the Task collection: _id -> task document
    nextId,     \* the next _id the store hands out (ids are never reused)
    resp,       \* the request being answered and its status code; NoRequest when idle
    emitted,    \* the io.to(room).emit(event, ...) calls of that request, in order
    before,     \* the collection that request works on (tasks, leaves or projects),
                \* as the request found it
    out,        \* the payload of that response: a task, a task list or the stats
    flight,     \* a handler suspended at an await, with what it has loaded so far
    sockets,    \* the socket.io connections: handle -> [state, rooms, received]
    created,    \* the last successful create whose task no later write has touched
    issued,     \* the tokens jwt.sign has handed out: [id, role] as signed
    leaves,     \* the Leave collection: _id -> leave document
    projects    \* the Project collection: _id -> project document

vars ==
    <<users, tasks, nextId, resp, emitted, before, out, flight, sockets, created, issued,
      leaves, projects>>

\* ------------------------------------------------------------------ bounds

\* Number of task documents the store ever holds ids for.
MaxTasks == 1

\* ------------------------------------------------------------------ values

Statuses == {"todo", "in-progress", "review", "done"}
Priorities == {"low", "medium", "high"}

\* Holders of a valid token who send requests.
Clients == {"u1", "u2", "u3"}

\* A well-formed ObjectId that names no user document.
GhostUser == "u9"

\* _ids the store can hand out; 0 stands for a string that is no ObjectId.
TaskIds == 1..MaxTasks
RequestIds == 0..MaxTasks

\* mongoose.Types.ObjectId.isValid
ObjectIdIsValid(id) == id > 0

\* ObjectId.prototype.toString: the hex string of the id (ids are modelled by
\* that string).
ObjectIdToString(oid) == oid

\* Document.prototype.toString of a populated user document: the inspect()
\* rendering of the document, never the bare id.
DocumentToString(uid) == "{ _id: " \o uid \o ", name, email }"

\* new Date(s) / the schema's Date cast, on the ISO strings the requests carry.
NewDate(s) ==
    CASE s \in {"2020-01-01", "2020-01-01T00:00:00.000Z"} -> 18262
      [] s \in {"2030-01-01", "2030-01-01T00:00:00.000Z"} -> 21915
      [] s \in {"2030-01-02", "2030-01-02T00:00:00.000Z"} -> 21916
      [] OTHER -> 0

\* dueDate of a document that has none.
NoDate == 0

\* Date.prototype.toISOString, as res.json renders a stored date.
ToISOString(d) ==
    CASE d = 18262 -> "2020-01-01T00:00:00.000Z"
      [] d = 21915 -> "2030-01-01T00:00:00.000Z"
      [] d = 21916 -> "2030-01-02T00:00:00.000Z"
      [] OTHER -> ""

\* String.prototype.trim on the strings the requests carry.
Trim(s) ==
    CASE s = " T2" -> "T2"
      [] s = " Alpha " -> "Alpha"
      [] s = "  " -> ""
      [] OTHER -> s

SeqToSet(s) == {s[i] : i \in DOMAIN s}

\* ------------------------------------------------------------------ requests

\* A request body: `has` is Object.keys(req.body); a key outside `has` is
\* undefined, whatever its slot holds.
NoBody ==
    [has |-> {}, title |-> "", description |-> "", status |-> "", priority |-> "",
     assignedTo |-> <<>>, assignedToIsArray |-> TRUE, dueDate |-> "",
     assignedBy |-> "", taskIds |-> <<>>,
     startDate |-> "", endDate |-> "", reason |-> "", name |-> ""]

Field(b, k) == k \in b.has

NoRequest ==
    [op |-> "none", impl |-> "none", user |-> "none", id |-> 0, body |-> NoBody, code |-> 0]

Response(op, impl, u, id, b, code) ==
    [op |-> op, impl |-> impl, user |-> u, id |-> id, body |-> b, code |-> code]

\* A response that carries no resource.
NoOut == [kind |-> "none"]

\* No handler is suspended.
NoFlight == [op |-> "none"]

\* No task is as its create request left it.
NoCreate == [id |-> 0, user |-> "none", body |-> NoBody]

\* ------------------------------------------------------------------ users

\* User.find({ _id: { $in: ids } }): the documents found (one per distinct id).
FindUsers(ids) == {u \in DOMAIN users : u \in SeqToSet(ids)}

\* User.find({ _id: { $in: ids }, isActive: true })
FindActiveUsers(ids) == {u \in FindUsers(ids) : users[u].isActive}

\* authorize('admin'): lets the request through for that role only.
authorize(u, role) == users[u].role = role

\* ------------------------------------------------------------------ populate

\* populate('assignedTo'): the user documents of the ids that resolve.
PopulatedAssignedTo(t) == SelectSeq(t.assignedTo, LAMBDA a : a \in DOMAIN users)

\* res.json({ task }) of a populated task: the references are rendered as the
\* user documents that resolved (named here by their _id), dates as ISO strings.
TaskJson(t) ==
    [title |-> t.title,
     description |-> t.description,
     status |-> t.status,
     priority |-> t.priority,
     assignedTo |-> PopulatedAssignedTo(t),
     assignedBy |-> IF t.assignedBy \in DOMAIN users THEN t.assignedBy ELSE "null",
     dueDate |-> IF t.dueDate = NoDate THEN "" ELSE ToISOString(t.dueDate)]

\* ------------------------------------------------------------------ emits

Emit(room, event, id) == [room |-> room, event |-> event, task |-> id]

\* rooms.forEach(r => io.to(r).emit(event, ...))
EmitEach(rooms, event, id) == [i \in 1..Len(rooms) |-> Emit(rooms[i], event, id)]

\* io.to(room).emit(...) as the in-memory adapter broadcasts it: a packet goes
\* at once to every socket that is in the room now, and nowhere else.
RECURSIVE Broadcast(_, _)
Broadcast(conns, events) ==
    IF events = <<>> THEN conns
    ELSE Broadcast([c \in DOMAIN conns |->
                      IF Head(events).room \in conns[c].rooms
                        THEN [conns[c] EXCEPT !.received = Append(@, Head(events))]
                        ELSE conns[c]],
                   Tail(events))

\* ------------------------------------------------------------------ schema

\* The Task schema's validators, run by save().
SchemaValid(t) ==
    /\ t.title # ""
    /\ t.description # ""
    /\ t.status \in Statuses
    /\ t.priority \in Priorities

\* return res.status(code).json(...) on a path that wrote and emitted nothing.
Reply(op, impl, u, id, b, code) ==
    /\ resp' = Response(op, impl, u, id, b, code)
    /\ emitted' = <<>>
    /\ before' = tasks
    /\ out' = NoOut
    /\ UNCHANGED <<leaves, projects, issued, users, tasks, nextId, flight, sockets, created>>

\* return res.json({ ...payload }) on a path that wrote and emitted nothing.
ReplyWith(op, impl, u, id, b, code, payload) ==
    /\ resp' = Response(op, impl, u, id, b, code)
    /\ emitted' = <<>>
    /\ before' = tasks
    /\ out' = payload
    /\ UNCHANGED <<leaves, projects, issued, users, tasks, nextId, flight, sockets, created>>

\* ------------------------------------------------------------------ get

\* taskController.getTask: the status code of GET /tasks/:id.
getTaskCode(u, id) ==
    IF ~ObjectIdIsValid(id) THEN 400
    ELSE IF id \notin DOMAIN tasks THEN 404
    ELSE IF users[u].role = "admin" THEN 200
    ELSE IF ObjectIdToString(u) \in
              {ObjectIdToString(a) : a \in SeqToSet(PopulatedAssignedTo(tasks[id]))} THEN 200
    \* assignedBy is populated: null when the creator's document is gone
    ELSE IF tasks[id].assignedBy \notin DOMAIN users THEN 500
    ELSE IF DocumentToString(tasks[id].assignedBy) = ObjectIdToString(u) THEN 200
    ELSE 403

getTask(u, id) ==
    IF getTaskCode(u, id) = 200
      THEN ReplyWith("get", "controller", u, id, NoBody, 200,
                     [kind |-> "task", task |-> TaskJson(tasks[id])])
      ELSE Reply("get", "controller", u, id, NoBody, getTaskCode(u, id))

\* router.get('/:id'): the same checks, as three separate returns.
RouterGetTaskCode(u, id) ==
    IF ~ObjectIdIsValid(id) THEN 400
    ELSE IF id \notin DOMAIN tasks THEN 404
    ELSE IF users[u].role = "admin" THEN 200
    ELSE IF ObjectIdToString(u) \in
              {ObjectIdToString(a) : a \in SeqToSet(PopulatedAssignedTo(tasks[id]))} THEN 200
    ELSE IF tasks[id].assignedBy \notin DOMAIN users THEN 500
    ELSE IF DocumentToString(tasks[id].assignedBy) = ObjectIdToString(u) THEN 200
    ELSE 403

RouterGetTask(u, id) ==
    IF RouterGetTaskCode(u, id) = 200
      THEN ReplyWith("get", "router", u, id, NoBody, 200,
                     [kind |-> "task", task |-> TaskJson(tasks[id])])
      ELSE Reply("get", "router", u, id, NoBody, RouterGetTaskCode(u, id))

\* ------------------------------------------------------------------ create

\* AssignedToRejected without the length test.
AssignedToRejected_NoLength(b) ==
    \/ ~Field(b, "assignedTo")
    \/ ~b.assignedToIsArray

\* !Array.isArray(assignedTo) || assignedTo.length === 0
AssignedToRejected(b) ==
    \/ ~Field(b, "assignedTo")
    \/ ~b.assignedToIsArray
    \/ Len(b.assignedTo) = 0

\* CreateEmits without the taskCreated to the requester.
CreateEmits_AssigneesOnly(u, id, t) ==
    EmitEach(PopulatedAssignedTo(t), "taskAssigned", id)

\* The events of a successful create: taskAssigned to each populated assignee,
\* then taskCreated to the requester.
CreateEmits(u, id, t) ==
    EmitEach(PopulatedAssignedTo(t), "taskAssigned", id)
        \o <<Emit(ObjectIdToString(u), "taskCreated", id)>>

Persist(op, impl, u, id, b, t, code, events) ==
    /\ tasks' = [i \in DOMAIN tasks \cup {id} |-> IF i = id THEN t ELSE tasks[i]]
    /\ resp' = Response(op, impl, u, id, b, code)
    /\ emitted' = events
    /\ before' = tasks
    /\ out' = NoOut
    /\ created' = IF op = "create" THEN [id |-> id, user |-> u, body |-> b] ELSE NoCreate
    /\ sockets' = Broadcast(sockets, events)
    /\ UNCHANGED <<leaves, projects, issued, users, flight>>

\* NewTask with "low" as the priority of a request that names none.
NewTask_LowDefault(u, b) ==
    [title |-> IF Field(b, "title") THEN b.title ELSE "",
     description |-> IF Field(b, "description") THEN b.description ELSE "",
     priority |-> IF Field(b, "priority") /\ b.priority # "" THEN b.priority ELSE "low",
     status |-> IF Field(b, "status") /\ b.status # "" THEN b.status ELSE "todo",
     assignedTo |-> b.assignedTo,
     assignedBy |-> u,
     dueDate |-> IF Field(b, "dueDate") /\ b.dueDate # "" THEN NewDate(b.dueDate) ELSE NoDate]

\* new Task({...}) of taskController.createTask
NewTask(u, b) ==
    [title |-> IF Field(b, "title") THEN b.title ELSE "",
     description |-> IF Field(b, "description") THEN b.description ELSE "",
     priority |-> IF Field(b, "priority") /\ b.priority # "" THEN b.priority ELSE "medium",
     status |-> IF Field(b, "status") /\ b.status # "" THEN b.status ELSE "todo",
     assignedTo |-> b.assignedTo,
     assignedBy |-> u,
     dueDate |-> IF Field(b, "dueDate") /\ b.dueDate # "" THEN NewDate(b.dueDate) ELSE NoDate]

\* taskController.createTask
createTask(u, b) ==
    IF ~Field(b, "title") \/ b.title = "" \/ ~Field(b, "description") \/ b.description = ""
         THEN Reply("create", "controller", u, 0, b, 400)
       ELSE IF AssignedToRejected(b)
         THEN Reply("create", "controller", u, 0, b, 400)
       ELSE IF Cardinality(FindActiveUsers(b.assignedTo)) # Len(b.assignedTo)
         THEN Reply("create", "controller", u, 0, b, 400)
       ELSE IF ~SchemaValid(NewTask(u, b))
         THEN Reply("create", "controller", u, 0, b, 500)
       ELSE /\ nextId <= MaxTasks
            /\ Persist("create", "controller", u, nextId, b, NewTask(u, b), 201,
                       CreateEmits(u, nextId, NewTask(u, b)))
            /\ nextId' = nextId + 1

\* new Task({...}) of router.post('/'): priority and dueDate are passed as they
\* came; the schema supplies the default priority and casts the date.
RouterNewTask(u, b) ==
    [title |-> IF Field(b, "title") THEN b.title ELSE "",
     description |-> IF Field(b, "description") THEN b.description ELSE "",
     priority |-> IF Field(b, "priority") THEN b.priority ELSE "medium",
     status |-> IF Field(b, "status") /\ b.status # "" THEN b.status ELSE "todo",
     assignedTo |-> b.assignedTo,
     assignedBy |-> u,
     dueDate |-> IF Field(b, "dueDate") THEN NewDate(b.dueDate) ELSE NoDate]

\* router.post('/'), behind authorize('admin')
RouterCreateTask(u, b) ==
    IF ~authorize(u, "admin")
         THEN Reply("create", "router", u, 0, b, 403)
       ELSE IF AssignedToRejected(b)
         THEN Reply("create", "router", u, 0, b, 400)
       ELSE IF Cardinality(FindUsers(b.assignedTo)) # Len(b.assignedTo)
         THEN Reply("create", "router", u, 0, b, 400)
       ELSE IF ~SchemaValid(RouterNewTask(u, b))
         THEN Reply("create", "router", u, 0, b, 500)
       ELSE /\ nextId <= MaxTasks
            /\ Persist("create", "router", u, nextId, b, RouterNewTask(u, b), 201,
                       CreateEmits(u, nextId, RouterNewTask(u, b)))
            /\ nextId' = nextId + 1

\* ------------------------------------------------------------------ update

\* Task.canBeModifiedBy as updateTask relies on it: the write rule for the
\* fields the request carries (admin or creator; an assignee for status alone).
canBeModifiedBy(t, userId, role, fields) ==
    \/ role = "admin"
    \/ ObjectIdToString(t.assignedBy) = ObjectIdToString(userId)
    \/ /\ fields = {"status"}
       /\ ObjectIdToString(userId) \in {ObjectIdToString(a) : a \in SeqToSet(t.assignedTo)}

\* The title/description/status/priority/dueDate assignments of updateTask.
ApplyFields(t, b) ==
    [t EXCEPT
       !.title = IF Field(b, "title") THEN Trim(b.title) ELSE @,
       !.description = IF Field(b, "description") THEN Trim(b.description) ELSE @,
       !.status = IF Field(b, "status") THEN b.status ELSE @,
       !.priority = IF Field(b, "priority") THEN b.priority ELSE @,
       !.dueDate = IF Field(b, "dueDate") THEN NewDate(b.dueDate) ELSE @]

\* task.assignedTo = assignedTo, when the request carries it.
ApplyAssignedTo(t, b) ==
    IF Field(b, "assignedTo") THEN [t EXCEPT !.assignedTo = b.assignedTo] ELSE t

\* NewlyAssigned without the "not in the original list" filter.
NewlyAssigned_All(original, t) == PopulatedAssignedTo(t)

\* The taskAssigned loop: populated assignees that were not in the original list.
NewlyAssigned(original, t) ==
    SelectSeq(PopulatedAssignedTo(t),
              LAMBDA a : ~\E i \in DOMAIN original :
                            ObjectIdToString(original[i]) = ObjectIdToString(a))

\* The events of updateTask up to the creator's: previous assignees, then new ones.
AssigneeEmits(original, id, t) ==
    EmitEach(original, "taskUpdated", id) \o EmitEach(NewlyAssigned(original, t), "taskAssigned", id)

\* The events of a successful updateTask; assignedBy is populated by then.
updateTaskEmits(u, original, id, t) ==
    AssigneeEmits(original, id, t)
        \o <<Emit(DocumentToString(t.assignedBy), "taskUpdated", id)>>
        \o (IF users[u].role = "admin"
              THEN <<Emit(ObjectIdToString(u), "taskUpdated", id)>> ELSE <<>>)

\* taskController.updateTask
updateTask(u, id, b) ==
    IF ~ObjectIdIsValid(id) THEN Reply("update", "controller", u, id, b, 400)
    ELSE IF id \notin DOMAIN tasks THEN Reply("update", "controller", u, id, b, 404)
    ELSE IF ~canBeModifiedBy(tasks[id], u, users[u].role, b.has)
      THEN Reply("update", "controller", u, id, b, 403)
    ELSE IF Field(b, "assignedTo")
            /\ Cardinality(FindActiveUsers(b.assignedTo)) # Len(b.assignedTo)
      THEN Reply("update", "controller", u, id, b, 400)
    ELSE LET t == ApplyAssignedTo(ApplyFields(tasks[id], b), b)
             original == tasks[id].assignedTo
         IN IF ~SchemaValid(t) THEN Reply("update", "controller", u, id, b, 500)
            ELSE IF t.assignedBy \notin DOMAIN users
              \* populated assignedBy is null: toString throws after the save
              THEN /\ Persist("update", "controller", u, id, b, t, 500,
                              AssigneeEmits(original, id, t))
                   /\ UNCHANGED nextId
            ELSE /\ Persist("update", "controller", u, id, b, t, 200,
                            updateTaskEmits(u, original, id, t))
                 /\ UNCHANGED nextId

\* RouterCanUpdate without the "status is the only key" test.
RouterCanUpdate_AnyKeys(u, t, b) ==
    IF users[u].role # "admin" /\ ObjectIdToString(t.assignedBy) # ObjectIdToString(u)
      THEN IF Field(b, "status") /\ b.status # ""
             THEN ObjectIdToString(u) \in {ObjectIdToString(a) : a \in SeqToSet(t.assignedTo)}
             ELSE FALSE
      ELSE TRUE

\* RouterCanUpdate with the creator grant and the assignee grant combined by AND.
RouterCanUpdate_CreatorAnd(u, t, b) ==
    IF users[u].role # "admin"
         /\ ~(/\ ObjectIdToString(t.assignedBy) = ObjectIdToString(u)
              /\ ObjectIdToString(u) \in {ObjectIdToString(a) : a \in SeqToSet(t.assignedTo)})
      THEN IF (Field(b, "status") /\ b.status # "") /\ Cardinality(b.has) = 1
             THEN ObjectIdToString(u) \in {ObjectIdToString(a) : a \in SeqToSet(t.assignedTo)}
             ELSE FALSE
      ELSE TRUE

\* RouterCanUpdate without the admin grant.
RouterCanUpdate_NoAdminGrant(u, t, b) ==
    IF ObjectIdToString(t.assignedBy) # ObjectIdToString(u)
      THEN IF (Field(b, "status") /\ b.status # "") /\ Cardinality(b.has) = 1
             THEN ObjectIdToString(u) \in {ObjectIdToString(a) : a \in SeqToSet(t.assignedTo)}
             ELSE FALSE
      ELSE TRUE

\* The permission check of router.put('/:id').
RouterCanUpdate(u, t, b) ==
    IF users[u].role # "admin" /\ ObjectIdToString(t.assignedBy) # ObjectIdToString(u)
      THEN IF (Field(b, "status") /\ b.status # "") /\ Cardinality(b.has) = 1
             THEN ObjectIdToString(u) \in {ObjectIdToString(a) : a \in SeqToSet(t.assignedTo)}
             ELSE FALSE
      ELSE TRUE

\* RouterApplyFields with an absent status written back as the schema default.
RouterApplyFields_ResetsAbsent(t, b) ==
    [t EXCEPT
       !.title = IF Field(b, "title") THEN b.title ELSE @,
       !.description = IF Field(b, "description") THEN b.description ELSE @,
       !.status = IF Field(b, "status") THEN b.status ELSE "todo",
       !.priority = IF Field(b, "priority") THEN b.priority ELSE @,
       !.dueDate = IF Field(b, "dueDate") THEN NewDate(b.dueDate) ELSE @]

\* The field assignments of router.put('/:id'): values are stored as sent.
RouterApplyFields(t, b) ==
    [t EXCEPT
       !.title = IF Field(b, "title") THEN b.title ELSE @,
       !.description = IF Field(b, "description") THEN b.description ELSE @,
       !.status = IF Field(b, "status") THEN b.status ELSE @,
       !.priority = IF Field(b, "priority") THEN b.priority ELSE @,
       !.dueDate = IF Field(b, "dueDate") THEN NewDate(b.dueDate) ELSE @]

\* The events of a successful router.put('/:id'): the last one goes to the requester.
RouterUpdateEmits(u, original, id, t) ==
    AssigneeEmits(original, id, t) \o <<Emit(ObjectIdToString(u), "taskUpdated", id)>>

\* router.put('/:id')
RouterUpdateTask(u, id, b) ==
    IF ~ObjectIdIsValid(id) THEN Reply("update", "router", u, id, b, 400)
    ELSE IF id \notin DOMAIN tasks THEN Reply("update", "router", u, id, b, 404)
    ELSE IF ~RouterCanUpdate(u, tasks[id], b) THEN Reply("update", "router", u, id, b, 403)
    ELSE IF Field(b, "assignedTo") /\ Cardinality(FindUsers(b.assignedTo)) # Len(b.assignedTo)
      THEN Reply("update", "router", u, id, b, 400)
    ELSE LET t == ApplyAssignedTo(RouterApplyFields(tasks[id], b), b)
             original == tasks[id].assignedTo
         IN IF ~SchemaValid(t) THEN Reply("update", "router", u, id, b, 500)
            ELSE /\ Persist("update", "router", u, id, b, t, 200,
                            RouterUpdateEmits(u, original, id, t))
                 /\ UNCHANGED nextId

\* ------------------------------------------------------------------ delete

\* Task.findByIdAndDelete, then the response and the events.
Remove(impl, u, id, events) ==
    /\ tasks' = [i \in DOMAIN tasks \ {id} |-> tasks[i]]
    /\ resp' = Response("delete", impl, u, id, NoBody, 200)
    /\ emitted' = events
    /\ before' = tasks
    /\ out' = NoOut
    /\ created' = NoCreate
    /\ sockets' = Broadcast(sockets, events)
    /\ UNCHANGED <<leaves, projects, issued, users, nextId, flight>>

\* deleteTaskEmits sent to every user's room instead.
deleteTaskEmits_Everyone(u, id, t) ==
    EmitEach(<<"u1", "u2", "u3">>, "taskDeleted", id)

\* The events of deleteTask: assignees, creator, and an admin requester.
deleteTaskEmits(u, id, t) ==
    EmitEach(t.assignedTo, "taskDeleted", id)
        \o <<Emit(ObjectIdToString(t.assignedBy), "taskDeleted", id)>>
        \o (IF users[u].role = "admin"
              THEN <<Emit(ObjectIdToString(u), "taskDeleted", id)>> ELSE <<>>)

\* taskController.deleteTask; findById throws a cast error on a malformed id.
deleteTask(u, id) ==
    IF ~ObjectIdIsValid(id) THEN Reply("delete", "controller", u, id, NoBody, 500)
    ELSE IF id \notin DOMAIN tasks THEN Reply("delete", "controller", u, id, NoBody, 404)
    ELSE IF users[u].role # "admin"
            /\ ObjectIdToString(tasks[id].assignedBy) # ObjectIdToString(u)
      THEN Reply("delete", "controller", u, id, NoBody, 403)
    ELSE Remove("controller", u, id, deleteTaskEmits(u, id, tasks[id]))

\* The events of router.delete('/:id'): assignees, then the requester.
RouterDeleteEmits(u, id, t) ==
    EmitEach(t.assignedTo, "taskDeleted", id)
        \o <<Emit(ObjectIdToString(u), "taskDeleted", id)>>

\* router.delete('/:id'), behind authorize('admin')
RouterDeleteTask(u, id) ==
    IF ~authorize(u, "admin") THEN Reply("delete", "router", u, id, NoBody, 403)
    ELSE IF ~ObjectIdIsValid(id) THEN Reply("delete", "router", u, id, NoBody, 500)
    ELSE IF id \notin DOMAIN tasks THEN Reply("delete", "router", u, id, NoBody, 404)
    ELSE Remove("router", u, id, RouterDeleteEmits(u, id, tasks[id]))

\* ------------------------------------------------------------------ bulk update

\* Task.find({ _id: { $in: ids } }): the _ids of the documents found.
FindTasks(ids) == {i \in DOMAIN tasks : i \in SeqToSet(ids)}

\* { $set: updateData } on one document: every key of updateData that is a
\* schema path is written as sent; updateMany runs no validators.
ApplySet(t, d) ==
    [t EXCEPT
       !.title = IF Field(d, "title") THEN d.title ELSE @,
       !.description = IF Field(d, "description") THEN d.description ELSE @,
       !.status = IF Field(d, "status") THEN d.status ELSE @,
       !.priority = IF Field(d, "priority") THEN d.priority ELSE @,
       !.assignedTo = IF Field(d, "assignedTo") THEN d.assignedTo ELSE @,
       !.assignedBy = IF Field(d, "assignedBy") THEN d.assignedBy ELSE @,
       !.dueDate = IF Field(d, "dueDate") THEN NewDate(d.dueDate) ELSE @]

\* tasks.forEach(task => task.assignedTo.forEach(... emit('taskUpdated', task))),
\* over the documents as they were loaded.
RECURSIVE bulkUpdateEmits(_)
bulkUpdateEmits(found) ==
    IF found = {} THEN <<>>
    ELSE LET id == CHOOSE i \in found : \A j \in found : i <= j
         IN EmitEach(tasks[id].assignedTo, "taskUpdated", id) \o bulkUpdateEmits(found \ {id})

\* taskController.bulkUpdateTasks; d.taskIds is req.body.taskIds (an array) and
\* d.has the keys of req.body.updateData.
bulkUpdateTasks(u, d) ==
    IF Len(d.taskIds) = 0 THEN Reply("bulk", "controller", u, 0, d, 400)
    ELSE IF \E i \in DOMAIN d.taskIds : ~ObjectIdIsValid(d.taskIds[i])
      THEN Reply("bulk", "controller", u, 0, d, 400)
    ELSE IF \E id \in FindTasks(d.taskIds) :
               ~canBeModifiedBy(tasks[id], u, users[u].role, d.has)
      THEN Reply("bulk", "controller", u, 0, d, 403)
    ELSE /\ tasks' = [id \in DOMAIN tasks |->
                        IF id \in FindTasks(d.taskIds) THEN ApplySet(tasks[id], d)
                        ELSE tasks[id]]
         /\ resp' = Response("bulk", "controller", u, 0, d, 200)
         /\ emitted' = bulkUpdateEmits(FindTasks(d.taskIds))
         /\ before' = tasks
         /\ out' = NoOut
         /\ created' = NoCreate
         /\ sockets' = Broadcast(sockets, bulkUpdateEmits(FindTasks(d.taskIds)))
         /\ UNCHANGED <<leaves, projects, issued, users, nextId, flight>>

\* ------------------------------------------------------------------ list

\* .sort({ createdAt: -1 }): _ids are handed out in creation order, so the
\* newest document is the one with the largest _id.
RECURSIVE SortNewestFirst(_)
SortNewestFirst(ids) ==
    IF ids = {} THEN <<>>
    ELSE LET id == CHOOSE i \in ids : \A j \in ids : j <= i
         IN <<id>> \o SortNewestFirst(ids \ {id})

\* The query of getTasks and getTaskStats: {} for an admin, otherwise
\* { $or: [{ assignedTo: { $in: [user._id] } }, { assignedBy: user._id }] }.
MatchQuery(u, t) ==
    \/ users[u].role = "admin"
    \/ u \in SeqToSet(t.assignedTo)
    \/ t.assignedBy = u

\* The query of router.get('/'): {} for an admin, otherwise { assignedTo: user._id }.
RouterMatchQuery(u, t) ==
    \/ users[u].role = "admin"
    \/ u \in SeqToSet(t.assignedTo)

\* taskController.getTasks
getTasks(u) ==
    ReplyWith("list", "controller", u, 0, NoBody, 200,
              [kind |-> "list",
               tasks |-> SortNewestFirst({id \in DOMAIN tasks : MatchQuery(u, tasks[id])})])

\* router.get('/')
RouterGetTasks(u) ==
    ReplyWith("list", "router", u, 0, NoBody, 200,
              [kind |-> "list",
               tasks |-> SortNewestFirst({id \in DOMAIN tasks : RouterMatchQuery(u, tasks[id])})])

\* ------------------------------------------------------------------ stats

\* new Date() at the time of the requests, between the two due dates in use.
Now == 20000

\* Task.countDocuments(query)
CountDocuments(u) == Cardinality({id \in DOMAIN tasks : MatchQuery(u, tasks[id])})

\* Task.aggregate([{ $match: query }, { $group: { _id: '$status', count: { $sum: 1 } } }])
\* reduced to the byStatus object: one key per status that occurs.
Aggregate(u) ==
    LET matched == {id \in DOMAIN tasks : MatchQuery(u, tasks[id])}
    IN [s \in {tasks[id].status : id \in matched} |->
            Cardinality({id \in matched : tasks[id].status = s})]

\* Task.countDocuments({ ...query, status: { $ne: 'done' }, dueDate: { $lt: new Date() } });
\* a document without dueDate does not match $lt.
CountOverdue(u) ==
    Cardinality({id \in DOMAIN tasks :
                    /\ MatchQuery(u, tasks[id])
                    /\ tasks[id].status # "done"
                    /\ tasks[id].dueDate # NoDate
                    /\ tasks[id].dueDate < Now})

\* getTaskStats up to its first await: the aggregate has run.
getTaskStats_aggregate(u) ==
    /\ flight = NoFlight
    /\ flight' = [op |-> "stats", pc |-> "countDocuments", user |-> u, found |-> tasks,
                  byStatus |-> Aggregate(u), total |-> 0]
    /\ UNCHANGED <<leaves, projects, issued, users, tasks, nextId,
                   resp, emitted, before, out, sockets, created>>

\* getTaskStats between its awaits: the total has been counted.
getTaskStats_countDocuments ==
    /\ flight.op = "stats" /\ flight.pc = "countDocuments"
    /\ flight' = [flight EXCEPT !.pc = "overdue", !.total = CountDocuments(flight.user)]
    /\ UNCHANGED <<leaves, projects, issued, users, tasks, nextId,
                   resp, emitted, before, out, sockets, created>>

\* getTaskStats from its last await: the overdue count, then res.json({ stats }).
getTaskStats_overdue ==
    /\ flight.op = "stats" /\ flight.pc = "overdue"
    /\ resp' = Response("stats", "controller", flight.user, 0, NoBody, 200)
    /\ out' = [kind |-> "stats", total |-> flight.total,
               overdue |-> CountOverdue(flight.user), byStatus |-> flight.byStatus]
    /\ emitted' = <<>>
    /\ before' = flight.found
    /\ flight' = NoFlight
    /\ UNCHANGED <<leaves, projects, issued, users, tasks, nextId, sockets, created>>

\* ------------------------------------------------------------------ awaits

\* A handler resumes after its await with what it loaded and answers.
Resume(op, impl, u, id, b, code, events) ==
    /\ resp' = Response(op, impl, u, id, b, code)
    /\ emitted' = events
    /\ before' = tasks
    /\ out' = NoOut
    /\ created' = IF code = 200 THEN NoCreate ELSE created
    /\ flight' = [op |-> "written", id |-> id]
    /\ sockets' = Broadcast(sockets, events)
    /\ UNCHANGED <<leaves, projects, issued, users, nextId>>

\* document.save() of a loaded document: the paths the handler changed are
\* $set on the stored document; the other paths stay as stored.
SaveOnto(stored, loaded, t) ==
    [title |-> IF t.title # loaded.title THEN t.title ELSE stored.title,
     description |-> IF t.description # loaded.description THEN t.description
                     ELSE stored.description,
     status |-> IF t.status # loaded.status THEN t.status ELSE stored.status,
     priority |-> IF t.priority # loaded.priority THEN t.priority ELSE stored.priority,
     assignedTo |-> IF t.assignedTo # loaded.assignedTo THEN t.assignedTo
                    ELSE stored.assignedTo,
     assignedBy |-> stored.assignedBy,
     dueDate |-> IF t.dueDate # loaded.dueDate THEN t.dueDate ELSE stored.dueDate]

\* updateTask from the request to `await task.save()`: findById found the
\* task, the permission and assignedTo checks passed, the fields are assigned
\* on the loaded document. (The returns before that are those of updateTask.)
updateTask_findById(u, id, b) ==
    /\ flight = NoFlight
    /\ ObjectIdIsValid(id) /\ id \in DOMAIN tasks
    /\ canBeModifiedBy(tasks[id], u, users[u].role, b.has)
    /\ Field(b, "assignedTo") =>
          Cardinality(FindActiveUsers(b.assignedTo)) = Len(b.assignedTo)
    /\ SchemaValid(ApplyAssignedTo(ApplyFields(tasks[id], b), b))
    /\ flight' = [op |-> "update", impl |-> "controller", user |-> u, id |-> id,
                  body |-> b, task |-> tasks[id]]
    /\ UNCHANGED <<leaves, projects, issued, users, tasks, nextId,
                   resp, emitted, before, out, sockets, created>>

\* router.put('/:id') from the request to `await task.save()`.
RouterUpdateTask_findById(u, id, b) ==
    /\ flight = NoFlight
    /\ ObjectIdIsValid(id) /\ id \in DOMAIN tasks
    /\ RouterCanUpdate(u, tasks[id], b)
    /\ Field(b, "assignedTo") => Cardinality(FindUsers(b.assignedTo)) = Len(b.assignedTo)
    /\ SchemaValid(ApplyAssignedTo(RouterApplyFields(tasks[id], b), b))
    /\ flight' = [op |-> "update", impl |-> "router", user |-> u, id |-> id,
                  body |-> b, task |-> tasks[id]]
    /\ UNCHANGED <<leaves, projects, issued, users, tasks, nextId,
                   resp, emitted, before, out, sockets, created>>

\* `await task.save()` and what follows it in updateTask and router.put: save()
\* rejects with DocumentNotFoundError when no stored document has the _id, and
\* the catch answers 500.
Update_save ==
    /\ flight.op = "update"
    /\ LET u == flight.user
           id == flight.id
           b == flight.body
           loaded == flight.task
           t == IF flight.impl = "controller"
                  THEN ApplyAssignedTo(ApplyFields(loaded, b), b)
                  ELSE ApplyAssignedTo(RouterApplyFields(loaded, b), b)
       IN IF id \notin DOMAIN tasks
            THEN /\ Resume("update", flight.impl, u, id, b, 500, <<>>)
                 /\ UNCHANGED tasks
            ELSE /\ tasks' = [tasks EXCEPT ![id] = SaveOnto(tasks[id], loaded, t)]
                 /\ IF flight.impl = "router"
                      THEN Resume("update", "router", u, id, b, 200,
                                  RouterUpdateEmits(u, loaded.assignedTo, id, t))
                      ELSE IF t.assignedBy \notin DOMAIN users
                        THEN Resume("update", "controller", u, id, b, 500,
                                    AssigneeEmits(loaded.assignedTo, id, t))
                        ELSE Resume("update", "controller", u, id, b, 200,
                                    updateTaskEmits(u, loaded.assignedTo, id, t))

\* deleteTask from the request to `await Task.findByIdAndDelete(...)`: findById
\* found the task and the requester may delete it.
deleteTask_findById(u, id) ==
    /\ flight = NoFlight
    /\ ObjectIdIsValid(id) /\ id \in DOMAIN tasks
    /\ \/ users[u].role = "admin"
       \/ ObjectIdToString(tasks[id].assignedBy) = ObjectIdToString(u)
    /\ flight' = [op |-> "delete", impl |-> "controller", user |-> u, id |-> id,
                  body |-> NoBody, task |-> tasks[id]]
    /\ UNCHANGED <<leaves, projects, issued, users, tasks, nextId,
                   resp, emitted, before, out, sockets, created>>

\* router.delete('/:id') from the request to `await Task.findByIdAndDelete(...)`.
RouterDeleteTask_findById(u, id) ==
    /\ flight = NoFlight
    /\ authorize(u, "admin")
    /\ ObjectIdIsValid(id) /\ id \in DOMAIN tasks
    /\ flight' = [op |-> "delete", impl |-> "router", user |-> u, id |-> id,
                  body |-> NoBody, task |-> tasks[id]]
    /\ UNCHANGED <<leaves, projects, issued, users, tasks, nextId,
                   resp, emitted, before, out, sockets, created>>

\* `await Task.findByIdAndDelete(...)` and what follows it in deleteTask and
\* router.delete: the result (null when the document is gone) is not looked
\* at; the events are built from the document loaded earlier.
Delete_findByIdAndDelete ==
    /\ flight.op = "delete"
    /\ tasks' = [i \in DOMAIN tasks \ {flight.id} |-> tasks[i]]
    /\ Resume("delete", flight.impl, flight.user, flight.id, NoBody, 200,
              IF flight.impl = "controller"
                THEN deleteTaskEmits(flight.user, flight.id, flight.task)
                ELSE RouterDeleteEmits(flight.user, flight.id, flight.task))

\* ------------------------------------------------------------------ inputs

\* The user collection the requests run against: one admin, two users, and one
\* deactivated user.
InitialUsers ==
    [u \in {"u1", "u2", "u3", "u4"} |->
        [role |-> IF u = "u1" THEN "admin" ELSE "user", isActive |-> u # "u4"]]

Body(has) == [NoBody EXCEPT !.has = has]

\* POST bodies.
CreateLists == {<<"u2">>, <<"u1", "u2">>, <<"u2", "u4">>, <<"u2", "u2">>, <<GhostUser>>, <<>>}

CreateBodies ==
    {[Body({"title", "description", "assignedTo"}) EXCEPT
        !.title = "T1", !.description = "D1", !.assignedTo = l] : l \in CreateLists}
    \cup {[Body({"title", "description"} \cup extra) EXCEPT
             !.title = "T1", !.description = "D1", !.assignedToIsArray = isArray]
            : extra \in {{}, {"assignedTo"}}, isArray \in {FALSE}}
    \cup {[Body({"title", "description", "assignedTo", "priority", "dueDate"}) EXCEPT
             !.title = "T1", !.description = "D1", !.assignedTo = <<"u3">>,
             !.priority = "high", !.dueDate = "2020-01-01"]}
    \cup {[Body({"description", "assignedTo"}) EXCEPT
             !.description = "D1", !.assignedTo = <<"u2">>]}

\* PUT bodies.
UpdateLists == {<<"u3">>, <<"u2", "u3">>, <<>>, <<"u4">>, <<GhostUser>>}

UpdateBodies ==
    {[Body({"status"}) EXCEPT !.status = s] : s \in {"done", "review", "blocked"}}
    \cup {[Body({"priority"}) EXCEPT !.priority = "high"]}
    \cup {[Body({"status", "priority"}) EXCEPT !.status = "done", !.priority = "high"]}
    \cup {[Body({"title"}) EXCEPT !.title = " T2"]}
    \cup {[Body({"description"}) EXCEPT !.description = "D2"]}
    \cup {[Body({"dueDate"}) EXCEPT !.dueDate = "2030-01-01"]}
    \cup {[Body({"assignedTo"}) EXCEPT !.assignedTo = l] : l \in UpdateLists}
    \cup {[Body({"title", "status", "assignedTo"}) EXCEPT
             !.title = " T2", !.status = "done", !.assignedTo = l]
            : l \in {<<"u4">>, <<GhostUser>>}}
    \cup {Body({})}

\* Bulk-update bodies: the ids named, and the updateData to $set.
BulkBodies ==
    {[Body({"status"}) EXCEPT !.status = "done", !.taskIds = ids]
        : ids \in {<<1>>, <<>>, <<0>>}}
    \cup {[Body({"assignedBy"}) EXCEPT !.assignedBy = "u3", !.taskIds = <<1>>]}

\* ------------------------------------------------------------------ specification

Init ==
    /\ users = InitialUsers
    /\ tasks = <<>>
    /\ nextId = 1
    /\ resp = NoRequest
    /\ emitted = <<>>
    /\ before = <<>>
    /\ out = NoOut
    /\ flight = NoFlight
    /\ sockets = <<>>
    /\ created = NoCreate
    /\ issued = {}
    /\ leaves = <<>>
    /\ projects = <<>>

\* The response and the events have left the server and the clients have
\* handled the packets pushed to them; the server takes the next request.
Sent ==
    /\ resp # NoRequest
    /\ resp' = NoRequest
    /\ emitted' = <<>>
    /\ before' = tasks
    /\ out' = NoOut
    /\ flight' = IF flight.op = "written" THEN NoFlight ELSE flight
    /\ sockets' = [c \in DOMAIN sockets |->
                      [sockets[c] EXCEPT !.received = <<>>, !.late = FALSE]]
    /\ UNCHANGED <<leaves, projects, issued, users, tasks, nextId, created>>

Idle == resp = NoRequest

Next ==
    \/ Idle /\ \E u \in Clients, id \in RequestIds : getTask(u, id)
    \/ Idle /\ \E u \in Clients, id \in RequestIds : RouterGetTask(u, id)
    \/ Idle /\ \E u \in Clients, b \in CreateBodies : createTask(u, b)
    \/ Idle /\ \E u \in Clients, b \in CreateBodies : RouterCreateTask(u, b)
    \/ Idle /\ \E u \in Clients, id \in RequestIds, b \in UpdateBodies : updateTask(u, id, b)
    \/ Idle /\ \E u \in Clients, id \in RequestIds, b \in UpdateBodies : RouterUpdateTask(u, id, b)
    \/ Idle /\ \E u \in Clients, id \in RequestIds : deleteTask(u, id)
    \/ Idle /\ \E u \in Clients, id \in RequestIds : RouterDeleteTask(u, id)
    \/ Idle /\ \E u \in Clients, d \in BulkBodies : bulkUpdateTasks(u, d)
    \/ Sent

Spec == Init /\ [][Next]_vars

\* ------------------------------------------------------------------ lists, stats and
\* requests that overlap

\* Number of task documents in the store the overlapping requests start from.
ViewTasks == 2

ViewIds == 1..ViewTasks

\* A stored task document as a successful create and later updates leave it.
ViewDoc(by, to, st, due) ==
    [title |-> "T1", description |-> "D1", status |-> st, priority |-> "medium",
     assignedTo |-> to, assignedBy |-> by, dueDate |-> due]

ViewDocs ==
    {ViewDoc(p[1], p[2], q[1], q[2]) :
        p \in {<<"u1", <<"u2">>>>, <<"u2", <<"u3">>>>, <<"u3", <<"u2", "u3">>>>},
        q \in {<<"todo", NewDate("2020-01-01")>>, <<"done", NewDate("2020-01-01")>>,
               <<"review", NoDate>>, <<"in-progress", NewDate("2030-01-01")>>}}

\* The PUT bodies of the overlapping requests.
ViewBodies == {[Body({"status"}) EXCEPT !.status = "done"]}

ViewsInit ==
    /\ users = InitialUsers
    /\ tasks \in [ViewIds -> ViewDocs]
    /\ nextId = ViewTasks + 1
    /\ resp = NoRequest
    /\ emitted = <<>>
    /\ before = tasks
    /\ out = NoOut
    /\ flight = NoFlight
    /\ sockets = <<>>
    /\ created = NoCreate
    /\ issued = {}
    /\ leaves = <<>>
    /\ projects = <<>>

\* One handler may be suspended at an await while whole requests are served.
ViewsNext ==
    \/ Idle /\ \E u \in Clients : getTasks(u)
    \/ Idle /\ \E u \in Clients : RouterGetTasks(u)
    \/ Idle /\ \E u \in Clients : getTaskStats_aggregate(u)
    \/ Idle /\ getTaskStats_countDocuments
    \/ Idle /\ getTaskStats_overdue
    \/ Idle /\ \E u \in Clients, id \in ViewIds, b \in ViewBodies : updateTask(u, id, b)
    \/ Idle /\ \E u \in Clients, id \in ViewIds : deleteTask(u, id)
    \/ Idle /\ \E u \in Clients, id \in ViewIds, b \in ViewBodies :
                  updateTask_findById(u, id, b)
    \/ Idle /\ \E u \in Clients, id \in ViewIds, b \in ViewBodies :
                  RouterUpdateTask_findById(u, id, b)
    \/ Idle /\ Update_save
    \/ Idle /\ \E u \in Clients, id \in ViewIds : deleteTask_findById(u, id)
    \/ Idle /\ \E u \in Clients, id \in ViewIds : RouterDeleteTask_findById(u, id)
    \/ Idle /\ Delete_findByIdAndDelete
    \/ Sent

SpecViews == ViewsInit /\ [][ViewsNext]_vars

\* ------------------------------------------------------------------ users that
\* are deleted

\* protect: the token's user must still be in the User collection (401 otherwise).
protect == {u \in Clients : u \in DOMAIN users}

\* router.delete('/:id') of the user routes, behind authorize('admin'): the
\* user document is removed; tasks that reference it are left as they are.
RouterDeleteUser(a, target) ==
    IF ~authorize(a, "admin") THEN Reply("deleteUser", "router", a, 0, NoBody, 403)
    ELSE IF target \notin DOMAIN users THEN Reply("deleteUser", "router", a, 0, NoBody, 404)
    ELSE /\ users' = [v \in DOMAIN users \ {target} |-> users[v]]
         /\ resp' = Response("deleteUser", "router", a, 0, NoBody, 200)
         /\ emitted' = <<>>
         /\ before' = tasks
         /\ out' = NoOut
         /\ UNCHANGED <<leaves, projects, issued, tasks, nextId, flight, sockets, created>>

\* The users an admin deletes.
DeletedUsers == {"u3", GhostUser}

\* POST and PUT bodies of the requests around a deleted user.
OrphanCreates ==
    {[Body({"title", "description", "assignedTo"}) EXCEPT
        !.title = "T1", !.description = "D1", !.assignedTo = l]
       : l \in {<<"u2">>, <<"u2", "u3">>, <<>>}}

OrphanUpdates ==
    {[Body({"status"}) EXCEPT !.status = s] : s \in {"done", "blocked"}}
    \cup {[Body({"title"}) EXCEPT !.title = " T2"]}
    \cup {[Body({"assignedTo"}) EXCEPT !.assignedTo = l] : l \in {<<"u2">>, <<"u3">>}}

OrphanNext ==
    \/ Idle /\ \E u \in protect, id \in RequestIds : getTask(u, id)
    \/ Idle /\ \E u \in protect, id \in RequestIds : RouterGetTask(u, id)
    \/ Idle /\ \E u \in protect, b \in OrphanCreates : createTask(u, b)
    \/ Idle /\ \E u \in protect, b \in OrphanCreates : RouterCreateTask(u, b)
    \/ Idle /\ \E u \in protect, id \in RequestIds, b \in OrphanUpdates : updateTask(u, id, b)
    \/ Idle /\ \E u \in protect, id \in RequestIds, b \in OrphanUpdates :
                  RouterUpdateTask(u, id, b)
    \/ Idle /\ \E u \in protect, id \in RequestIds : deleteTask(u, id)
    \/ Idle /\ \E u \in protect, id \in RequestIds : RouterDeleteTask(u, id)
    \/ Idle /\ \E a \in protect, target \in DeletedUsers : RouterDeleteUser(a, target)
    \/ Sent

SpecOrphan == Init /\ [][OrphanNext]_vars

\* ------------------------------------------------------------------ sockets

\* Number of socket.io connections open at a time.
MaxSockets == 2

Handles == 1..MaxSockets

\* socket.handshake.auth.token: absent, a string jwt.verify rejects, or a
\* token signed for a user id.
Tokens ==
    {[kind |-> "none", id |-> ""], [kind |-> "invalid", id |-> ""]}
        \cup {[kind |-> "valid", id |-> u] : u \in {"u1", "u2", GhostUser}}

\* The io.use middleware (the same in all three places): next() without an
\* error only for a token that verifies and whose user User.findById finds.
Authenticates(token) == token.kind = "valid" /\ token.id \in DOMAIN users

\* The middleware and the connection handler for one connecting socket: it
\* is refused at the handshake, or admitted and joined to `rooms`. `received`
\* holds the packets pushed to it by the request being answered, and `late`
\* tells that it connected after that request had emitted.
Connect(c, impl, token, rooms) ==
    /\ c \notin DOMAIN sockets
    /\ sockets' =
          [h \in DOMAIN sockets \cup {c} |->
              IF h # c THEN sockets[h]
              ELSE IF Authenticates(token)
                     THEN [state |-> "admitted", impl |-> impl, token |-> token,
                           userId |-> ObjectIdToString(token.id),
                           role |-> users[token.id].role, rooms |-> rooms,
                           received |-> <<>>, late |-> resp # NoRequest]
                     ELSE [state |-> "refused", impl |-> impl, token |-> token,
                           userId |-> "", role |-> "", rooms |-> {},
                           received |-> <<>>, late |-> resp # NoRequest]]
    /\ UNCHANGED <<leaves, projects, issued, users, tasks, nextId,
                   resp, emitted, before, out, flight, created>>

\* initializeSocket of socket/index.ts, first version: socket.join(socket.userId)
\* and socket.join(socket.role).
initializeSocket(c, token) ==
    Connect(c, "socket/index (auth only)", token,
            IF Authenticates(token)
              THEN {ObjectIdToString(token.id), users[token.id].role} ELSE {})

\* initializeSocket of socket/index.ts, second version: socket.join(socket.role) only.
initializeSocket_events(c, token) ==
    Connect(c, "socket/index", token,
            IF Authenticates(token) THEN {users[token.id].role} ELSE {})

\* io.use and io.on('connection') of server.ts: socket.join(user.role) only.
ServerConnection(c, token) ==
    Connect(c, "server", token,
            IF Authenticates(token) THEN {users[token.id].role} ELSE {})

\* 'disconnect' (or the end of a refused handshake): socket.io drops the
\* socket and with it its room memberships.
Disconnect(c) ==
    /\ c \in DOMAIN sockets
    /\ sockets' = [h \in DOMAIN sockets \ {c} |-> sockets[h]]
    /\ UNCHANGED <<leaves, projects, issued, users, tasks, nextId,
                   resp, emitted, before, out, flight, created>>

SocketsNext ==
    \/ \E c \in Handles, token \in Tokens : initializeSocket(c, token)
    \/ \E c \in Handles, token \in Tokens : initializeSocket_events(c, token)
    \/ \E c \in Handles, token \in Tokens : ServerConnection(c, token)
    \/ \E c \in Handles : Disconnect(c)

SpecSockets == Init /\ [][SocketsNext]_vars

\* ------------------------------------------------------------------ delivery

\* The handshake tokens of the connections that listen for task events.
DeliveryTokens == {t \in Tokens : t.kind = "none" \/ t.id \in {"u1", "u2"}}

\* POST and PUT bodies of the requests whose events are pushed.
DeliveryCreates ==
    {[Body({"title", "description", "assignedTo"}) EXCEPT
        !.title = "T1", !.description = "D1", !.assignedTo = l]
       : l \in {<<"u2">>, <<"u1", "u2">>}}

DeliveryUpdates ==
    {[Body({"status"}) EXCEPT !.status = "done"],
     [Body({"assignedTo"}) EXCEPT !.assignedTo = <<"u3">>]}

\* Connections open and close at any time; whole requests are served one
\* after the other.
DeliveryNext ==
    \/ \E c \in Handles, token \in DeliveryTokens : initializeSocket(c, token)
    \/ \E c \in Handles, token \in DeliveryTokens : initializeSocket_events(c, token)
    \/ \E c \in Handles, token \in DeliveryTokens : ServerConnection(c, token)
    \/ \E c \in Handles : Disconnect(c)
    \/ Idle /\ \E u \in Clients, b \in DeliveryCreates : createTask(u, b)
    \/ Idle /\ \E u \in Clients, b \in DeliveryCreates : RouterCreateTask(u, b)
    \/ Idle /\ \E u \in Clients, id \in TaskIds, b \in DeliveryUpdates : updateTask(u, id, b)
    \/ Idle /\ \E u \in Clients, id \in TaskIds, b \in DeliveryUpdates :
                  RouterUpdateTask(u, id, b)
    \/ Idle /\ \E u \in Clients, id \in TaskIds : deleteTask(u, id)
    \/ Idle /\ \E u \in Clients, id \in TaskIds : RouterDeleteTask(u, id)
    \/ Sent

SpecDelivery == Init /\ [][DeliveryNext]_vars

\* ------------------------------------------------------------------ status changes

\* POST, PUT and bulk bodies of the requests that set a status.
StatusCreates ==
    {[Body({"title", "description", "assignedTo"}) EXCEPT
        !.title = "T1", !.description = "D1", !.assignedTo = <<"u2">>]}

StatusUpdates ==
    {[Body({"status"}) EXCEPT !.status = s] : s \in Statuses \cup {"blocked"}}

StatusBulks ==
    {[Body({"status"}) EXCEPT !.status = s, !.taskIds = <<1>>] : s \in {"review", "blocked"}}

StatusNext ==
    \/ Idle /\ \E u \in Clients, b \in StatusCreates : createTask(u, b)
    \/ Idle /\ \E u \in Clients, b \in StatusCreates : RouterCreateTask(u, b)
    \/ Idle /\ \E u \in Clients, id \in TaskIds, b \in StatusUpdates : updateTask(u, id, b)
    \/ Idle /\ \E u \in Clients, id \in TaskIds, b \in StatusUpdates :
                  RouterUpdateTask(u, id, b)
    \/ Idle /\ \E u \in Clients, d \in StatusBulks : bulkUpdateTasks(u, d)
    \/ Sent

SpecStatus == Init /\ [][StatusNext]_vars

\* ------------------------------------------------------------------ updates that
\* overlap

\* POST and PUT bodies: the task, the status an assignee sets, and the
\* reassignment that may land while that update is suspended.
RaceCreates ==
    {[Body({"title", "description", "assignedTo"}) EXCEPT
        !.title = "T1", !.description = "D1", !.assignedTo = l]
       : l \in {<<"u2">>, <<"u2", "u3">>}}

RaceStatusUpdates == {[Body({"status"}) EXCEPT !.status = s] : s \in {"review", "done"}}

RaceReassignments == {[Body({"assignedTo"}) EXCEPT !.assignedTo = <<"u3">>]}

\* One update may be suspended at `await task.save()` while whole requests
\* are served.
RaceNext ==
    \/ Idle /\ \E u \in Clients, b \in RaceCreates : createTask(u, b)
    \/ Idle /\ \E u \in Clients, b \in RaceCreates : RouterCreateTask(u, b)
    \/ Idle /\ \E u \in Clients, id \in TaskIds, b \in RaceReassignments :
                  updateTask(u, id, b)
    \/ Idle /\ \E u \in Clients, id \in TaskIds, b \in RaceReassignments :
                  RouterUpdateTask(u, id, b)
    \/ Idle /\ \E u \in Clients, id \in TaskIds, b \in RaceStatusUpdates :
                  updateTask_findById(u, id, b)
    \/ Idle /\ \E u \in Clients, id \in TaskIds, b \in RaceStatusUpdates :
                  RouterUpdateTask_findById(u, id, b)
    \/ Idle /\ Update_save
    \/ Sent

SpecRace == Init /\ [][RaceNext]_vars

\* ------------------------------------------------------------------ roles and tokens

\* app.post('/api/auth/login'): jwt.sign({ id: user.id, role: user.role }); the
\* token keeps the role the user had when it was signed.
login(u) ==
    /\ u \in DOMAIN users
    /\ issued' = issued \cup {[id |-> u, role |-> users[u].role]}
    /\ resp' = Response("login", "server", u, 0, NoBody, 200)
    /\ emitted' = <<>>
    /\ before' = tasks
    /\ out' = NoOut
    /\ UNCHANGED <<leaves, projects, users, tasks, nextId, flight, sockets, created>>

\* protect: jwt.verify(token), then User.findById(decoded.id); only decoded.id
\* is read. Without a user document the request ends here with 401; otherwise
\* req.user is the stored document.
protectRejects(token) == token.id \notin DOMAIN users

Unauthorized(token, op, impl, id, b) == Reply(op, impl, token.id, id, b, 401)

\* router.put('/:id/role') of the user routes, behind authorize('admin').
RouterUpdateRole(a, target, role) ==
    IF ~authorize(a, "admin") THEN Reply("role", "router", a, 0, NoBody, 403)
    ELSE IF role \notin {"admin", "user"} THEN Reply("role", "router", a, 0, NoBody, 400)
    ELSE IF target \notin DOMAIN users THEN Reply("role", "router", a, 0, NoBody, 404)
    ELSE /\ users' = [users EXCEPT ![target].role = role]
         /\ resp' = Response("role", "router", a, 0, NoBody, 200)
         /\ emitted' = <<>>
         /\ before' = tasks
         /\ out' = [kind |-> "user", user |-> target, role |-> role]
         /\ UNCHANGED <<leaves, projects, issued, tasks, nextId, flight, sockets, created>>

\* The routes as mounted: protect first, then the handler with req.user.
GetTaskRoute(token, id) ==
    IF protectRejects(token) THEN Unauthorized(token, "get", "controller", id, NoBody)
    ELSE getTask(token.id, id)

RouterGetTaskRoute(token, id) ==
    IF protectRejects(token) THEN Unauthorized(token, "get", "router", id, NoBody)
    ELSE RouterGetTask(token.id, id)

CreateTaskRoute(token, b) ==
    IF protectRejects(token) THEN Unauthorized(token, "create", "controller", 0, b)
    ELSE createTask(token.id, b)

RouterUpdateTaskRoute(token, id, b) ==
    IF protectRejects(token) THEN Unauthorized(token, "update", "router", id, b)
    ELSE RouterUpdateTask(token.id, id, b)

DeleteTaskRoute(token, id) ==
    IF protectRejects(token) THEN Unauthorized(token, "delete", "controller", id, NoBody)
    ELSE deleteTask(token.id, id)

RouterUpdateRoleRoute(token, target, role) ==
    IF protectRejects(token) THEN Unauthorized(token, "role", "router", 0, NoBody)
    ELSE RouterUpdateRole(token.id, target, role)

RouterDeleteUserRoute(token, target) ==
    IF protectRejects(token) THEN Unauthorized(token, "deleteUser", "router", 0, NoBody)
    ELSE RouterDeleteUser(token.id, target)

\* The users who log in, the users whose role is changed, the roles sent, and
\* the users who are deleted.
LoginUsers == {"u1", "u2"}
RoleTargets == {"u1", "u2"}
RolesSent == {"admin", "user", "owner"}
RoleDeletedUsers == {"u2"}

\* POST and PUT bodies of the requests that carry the tokens.
RoleCreates ==
    {[Body({"title", "description", "assignedTo"}) EXCEPT
        !.title = "T1", !.description = "D1", !.assignedTo = <<"u3">>]}

RoleUpdates == {[Body({"priority"}) EXCEPT !.priority = "high"]}

RolesNext ==
    \/ Idle /\ \E u \in LoginUsers : login(u)
    \/ Idle /\ \E t \in issued, target \in RoleTargets, role \in RolesSent :
                  RouterUpdateRoleRoute(t, target, role)
    \/ Idle /\ \E t \in issued, target \in RoleDeletedUsers : RouterDeleteUserRoute(t, target)
    \/ Idle /\ \E t \in issued, id \in TaskIds : GetTaskRoute(t, id)
    \/ Idle /\ \E t \in issued, id \in TaskIds : RouterGetTaskRoute(t, id)
    \/ Idle /\ \E t \in issued, b \in RoleCreates : CreateTaskRoute(t, b)
    \/ Idle /\ \E t \in issued, id \in TaskIds, b \in RoleUpdates :
                  RouterUpdateTaskRoute(t, id, b)
    \/ Idle /\ \E t \in issued, id \in TaskIds : DeleteTaskRoute(t, id)
    \/ Sent

SpecRoles == Init /\ [][RolesNext]_vars

\* ------------------------------------------------------------------ leaves

\* Number of leave documents the store ever holds ids for.
MaxLeaves == 2

\* approvedBy of a leave nobody has decided: the path is not set.
NoUser == ""

\* return res.status(code).json(...) of a leave route that wrote nothing.
LeaveReply(op, u, id, b, code) ==
    /\ resp' = Response(op, "router", u, id, b, code)
    /\ emitted' = <<>>
    /\ before' = leaves
    /\ out' = NoOut
    /\ UNCHANGED <<leaves, projects, issued, users, tasks, nextId, flight, sockets, created>>

\* new Leave({ user, startDate, endDate, reason, status: 'pending' })
NewLeave(u, b) ==
    [user |-> u, startDate |-> NewDate(b.startDate), endDate |-> NewDate(b.endDate),
     reason |-> IF Field(b, "reason") THEN b.reason ELSE "",
     status |-> "pending", approvedBy |-> NoUser]

\* router.post('/') of the leave routes. A string that is no date makes an
\* Invalid Date: both comparisons are false and save() rejects the document.
RouterRequestLeave(u, b) ==
    LET start == NewDate(b.startDate)
        end == NewDate(b.endDate)
    IN IF start # NoDate /\ end # NoDate /\ start >= end
         THEN LeaveReply("requestLeave", u, 0, b, 400)
       ELSE IF start # NoDate /\ start < Now
         THEN LeaveReply("requestLeave", u, 0, b, 400)
       ELSE IF start = NoDate \/ end = NoDate \/ NewLeave(u, b).reason = ""
         THEN LeaveReply("requestLeave", u, 0, b, 500)
       ELSE /\ nextId <= MaxLeaves
            /\ leaves' = [i \in DOMAIN leaves \cup {nextId} |->
                             IF i = nextId THEN NewLeave(u, b) ELSE leaves[i]]
            /\ nextId' = nextId + 1
            /\ resp' = Response("requestLeave", "router", u, nextId, b, 201)
            /\ emitted' = <<>>
            /\ before' = leaves
            /\ out' = NoOut
            /\ UNCHANGED <<projects, issued, users, tasks, flight, sockets, created>>

\* DecidedLeave without approvedBy.
DecidedLeave_StatusOnly(l, status, admin) == [l EXCEPT !.status = status]

\* The update document of findByIdAndUpdate: { status, approvedBy: admin._id }.
DecidedLeave(l, status, admin) == [l EXCEPT !.status = status, !.approvedBy = admin]

\* router.put('/:id') of the leave routes, behind authorize('admin');
\* findByIdAndUpdate throws a cast error on a malformed id.
RouterDecideLeave(a, id, b) ==
    IF ~authorize(a, "admin") THEN LeaveReply("decide", a, id, b, 403)
    ELSE IF ~Field(b, "status") \/ b.status \notin {"approved", "rejected"}
      THEN LeaveReply("decide", a, id, b, 400)
    ELSE IF ~ObjectIdIsValid(id) THEN LeaveReply("decide", a, id, b, 500)
    ELSE IF id \notin DOMAIN leaves THEN LeaveReply("decide", a, id, b, 404)
    ELSE /\ leaves' = [leaves EXCEPT ![id] = DecidedLeave(@, b.status, a)]
         /\ resp' = Response("decide", "router", a, id, b, 200)
         /\ emitted' = <<>>
         /\ before' = leaves
         /\ out' = NoOut
         /\ UNCHANGED <<projects, issued, users, tasks, nextId, flight, sockets, created>>

\* POST and PUT bodies of the leave routes.
LeaveRequests ==
    {[Body({"startDate", "endDate", "reason"}) EXCEPT
        !.startDate = d[1], !.endDate = d[2], !.reason = "R1"]
       : d \in {<<"2030-01-01", "2030-01-02">>, <<"2030-01-02", "2030-01-01">>,
                <<"2020-01-01", "2030-01-01">>, <<"soon", "2030-01-01">>}}
    \cup {[Body({"startDate", "endDate", "reason", "status"}) EXCEPT
             !.startDate = "2030-01-01", !.endDate = "2030-01-02", !.reason = "R1",
             !.status = "approved"]}
    \cup {[Body({"startDate", "endDate"}) EXCEPT
             !.startDate = "2030-01-01", !.endDate = "2030-01-02"]}

LeaveDecisions ==
    {[Body({"status"}) EXCEPT !.status = s] : s \in {"approved", "rejected", "pending"}}
    \cup {Body({})}

LeaveIds == 0..MaxLeaves

\* The user an admin promotes or demotes between the decisions.
LeaveRoleTargets == {"u2"}

LeavesNext ==
    \/ Idle /\ \E u \in Clients, b \in LeaveRequests : RouterRequestLeave(u, b)
    \/ Idle /\ \E a \in Clients, id \in LeaveIds, b \in LeaveDecisions :
                  RouterDecideLeave(a, id, b)
    \/ Idle /\ \E a \in Clients, target \in LeaveRoleTargets, role \in {"admin", "user"} :
                  RouterUpdateRole(a, target, role)
    \/ Sent

SpecLeaves == Init /\ [][LeavesNext]_vars

\* ------------------------------------------------------------------ projects

\* Number of project documents the store ever holds ids for.
MaxProjects == 2

\* String.prototype.toLowerCase on the names the requests carry: the folding
\* the regular expression's `i` flag applies.
ToLowerCase(s) ==
    CASE s = "Alpha" -> "alpha"
      [] s = " Alpha " -> " alpha "
      [] s = "Beta" -> "beta"
      [] OTHER -> s

\* new RegExp(`^${name}$`, 'i') tested against a stored name: the request's
\* name goes into the pattern as sent, untrimmed (the names hold no
\* metacharacter).
NameRegexMatches(name, stored) == ToLowerCase(stored) = ToLowerCase(name)

\* Project.findOne({ name: { $regex: ... }, _id: { $ne: except } }) finds one.
FindOneByName(name, except) ==
    \E id \in DOMAIN projects \ except : NameRegexMatches(name, projects[id].name)

\* return res.status(code).json(...) of a project route that wrote nothing.
ProjectReply(op, u, id, b, code) ==
    /\ resp' = Response(op, "router", u, id, b, code)
    /\ emitted' = <<>>
    /\ before' = projects
    /\ out' = NoOut
    /\ UNCHANGED <<leaves, projects, issued, users, tasks, nextId, flight, sockets, created>>

\* new Project({ name: name.trim(), description: ... })
NewProject(b) ==
    [name |-> Trim(b.name),
     description |-> IF Field(b, "description") THEN Trim(b.description) ELSE ""]

\* project.save() of a new document, then res.status(201).
InsertProject(u, b) ==
    /\ nextId <= MaxProjects
    /\ projects' = [i \in DOMAIN projects \cup {nextId} |->
                       IF i = nextId THEN NewProject(b) ELSE projects[i]]
    /\ nextId' = nextId + 1
    /\ resp' = Response("createProject", "router", u, nextId, b, 201)
    /\ emitted' = <<>>
    /\ before' = projects
    /\ out' = NoOut

\* router.post('/') of the project routes, behind authorize('admin').
RouterCreateProject(a, b) ==
    IF ~authorize(a, "admin") THEN ProjectReply("createProject", a, 0, b, 403)
    ELSE IF ~Field(b, "name") \/ b.name = "" \/ Trim(b.name) = ""
      THEN ProjectReply("createProject", a, 0, b, 400)
    ELSE IF FindOneByName(b.name, {}) THEN ProjectReply("createProject", a, 0, b, 400)
    ELSE /\ InsertProject(a, b)
         /\ UNCHANGED <<leaves, issued, users, tasks, flight, sockets, created>>

\* router.post('/') from the request to `await project.save()`: the name was
\* accepted and findOne found no project with it.
RouterCreateProject_findOne(a, b) ==
    /\ flight = NoFlight
    /\ authorize(a, "admin")
    /\ Field(b, "name") /\ b.name # "" /\ Trim(b.name) # ""
    /\ ~FindOneByName(b.name, {})
    /\ flight' = [op |-> "createProject", user |-> a, body |-> b]
    /\ UNCHANGED <<leaves, projects, issued, users, tasks, nextId,
                   resp, emitted, before, out, sockets, created>>

\* `await project.save()` of router.post('/') and the response.
CreateProject_save ==
    /\ flight.op = "createProject"
    /\ InsertProject(flight.user, flight.body)
    /\ flight' = [op |-> "written", id |-> nextId]
    /\ UNCHANGED <<leaves, issued, users, tasks, sockets, created>>

\* router.put('/:id') of the project routes, behind authorize('admin'); save()
\* rejects a document whose required name is empty.
RouterUpdateProject(a, id, b) ==
    IF ~authorize(a, "admin") THEN ProjectReply("updateProject", a, id, b, 403)
    ELSE IF ~ObjectIdIsValid(id) THEN ProjectReply("updateProject", a, id, b, 400)
    ELSE IF id \notin DOMAIN projects THEN ProjectReply("updateProject", a, id, b, 404)
    ELSE IF /\ Field(b, "name") /\ b.name # "" /\ Trim(b.name) # projects[id].name
            /\ FindOneByName(b.name, {id})
      THEN ProjectReply("updateProject", a, id, b, 400)
    ELSE IF Field(b, "name") /\ Trim(b.name) = ""
      THEN ProjectReply("updateProject", a, id, b, 500)
    ELSE /\ projects' =
               [projects EXCEPT
                  ![id].name = IF Field(b, "name") THEN Trim(b.name) ELSE @,
                  ![id].description =
                      IF Field(b, "description") THEN Trim(b.description) ELSE @]
         /\ resp' = Response("updateProject", "router", a, id, b, 200)
         /\ emitted' = <<>>
         /\ before' = projects
         /\ out' = NoOut
         /\ UNCHANGED <<leaves, issued, users, tasks, nextId, flight, sockets, created>>

\* POST and PUT bodies of the project routes.
ProjectNames == {"Alpha", "alpha", " Alpha ", "Beta", "  "}

ProjectCreates ==
    {[Body({"name"}) EXCEPT !.name = n] : n \in ProjectNames} \cup {Body({})}

ProjectUpdates ==
    {[Body({"name"}) EXCEPT !.name = n] : n \in ProjectNames}
    \cup {[Body({"description"}) EXCEPT !.description = "D2"]}

ProjectIds == 0..MaxProjects

\* One create may be suspended at its save while whole requests are served.
ProjectsNext ==
    \/ Idle /\ \E a \in Clients, b \in ProjectCreates : RouterCreateProject(a, b)
    \/ Idle /\ \E a \in Clients, b \in ProjectCreates : RouterCreateProject_findOne(a, b)
    \/ Idle /\ CreateProject_save
    \/ Idle /\ \E a \in Clients, id \in ProjectIds, b \in ProjectUpdates :
                  RouterUpdateProject(a, id, b)
    \/ Sent

SpecProjects == Init /\ [][ProjectsNext]_vars

\* ------------------------------------------------------------------ properties

\* socket.join(socket.userId): the users whose connections are in a room.
RoomMembers(room) == {v \in DOMAIN users : ObjectIdToString(v) = room}

Answered(op) == resp.op = op
OnExistingTask == resp.id \in DOMAIN before
IsAdmin(u) == users[u].role = "admin"
Assignees(t) == SeqToSet(t.assignedTo)
EventsTo(v, event) ==
    {i \in DOMAIN emitted : v \in RoomMembers(emitted[i].room) /\ emitted[i].event = event}
FullEditFields == {"title", "description", "priority", "assignedTo", "dueDate"}

\* C1: GET /tasks/:id on an existing task answers 200 exactly when the requester
\* is an admin, is in the task's assignedTo, or is the task's assignedBy, and 403
\* in every other case.
C1_ReadIffAdminAssigneeOrCreator ==
    (Answered("get") /\ OnExistingTask) =>
        LET t == before[resp.id]
            allowed == \/ IsAdmin(resp.user)
                       \/ resp.user \in Assignees(t)
                       \/ resp.user = t.assignedBy
        IN /\ (resp.code = 200) <=> allowed
           /\ (resp.code = 403) <=> ~allowed

C4_CreatorDeletes ==
    (Answered("delete") /\ OnExistingTask /\ ~IsAdmin(resp.user)) =>
        IF resp.user = before[resp.id].assignedBy
          THEN resp.code = 200 /\ resp.id \notin DOMAIN tasks
          ELSE resp.code = 403 /\ tasks = before /\ emitted = <<>>

\* C5: a successful update from assignee set P to assignee set Q emits
\* taskUpdated to every user in P, taskAssigned to every user in Q \ P, and
\* taskAssigned to no user in P.
C5_AssignedOnlyToNewcomers ==
    (Answered("update") /\ OnExistingTask /\ resp.code = 200) =>
        LET P == Assignees(before[resp.id])
            Q == Assignees(tasks[resp.id])
        IN /\ \A v \in P : EventsTo(v, "taskUpdated") # {}
           /\ \A v \in Q \ P : EventsTo(v, "taskAssigned") # {}
           /\ \A v \in P : EventsTo(v, "taskAssigned") = {}

C5_Witness ==
    /\ Answered("update") /\ OnExistingTask /\ resp.code = 200
    /\ Assignees(before[resp.id]) = {"u1", "u2"}
    /\ Assignees(tasks[resp.id]) = {"u2", "u3"}
    /\ EventsTo("u3", "taskAssigned") # {}
    /\ EventsTo("u2", "taskAssigned") = {}

\* C6: every successful update emits taskUpdated to the room of the task's
\* creator, to every pre-update assignee, and to the requester when an admin.
C6_CreatorHearsEveryUpdate ==
    (Answered("update") /\ OnExistingTask /\ resp.code = 200) =>
        /\ EventsTo(before[resp.id].assignedBy, "taskUpdated") # {}
        /\ \A v \in Assignees(before[resp.id]) : EventsTo(v, "taskUpdated") # {}
        /\ IsAdmin(resp.user) => EventsTo(resp.user, "taskUpdated") # {}

\* The task ids a request names: its :id, or the taskIds of a bulk update.
Touched == IF resp.op = "bulk" THEN SeqToSet(resp.body.taskIds) ELSE {resp.id}

\* The users a mutation involves: assignees before and after, creator, requester.
Involved ==
    {resp.user}
        \cup UNION {Assignees(before[id]) \cup {before[id].assignedBy}
                      : id \in Touched \cap DOMAIN before}
        \cup UNION {Assignees(tasks[id]) \cup {tasks[id].assignedBy}
                      : id \in Touched \cap DOMAIN tasks}

\* C7: the events of a create, update or delete carry that task's id and reach
\* only users who are assignees of the task before or after it, its creator,
\* or the requester.
C7_EventsStayAmongInvolved ==
    \A i \in DOMAIN emitted :
        /\ resp.op \in {"create", "update", "delete", "bulk"}
        /\ emitted[i].task \in Touched
        /\ RoomMembers(emitted[i].room) \subseteq Involved

C7_Witness ==
    /\ Answered("delete") /\ resp.code = 200
    /\ resp.impl = "controller"
    /\ emitted # <<>>
    /\ \E v \in Clients : v \notin Involved

\* C8: a create whose assignedTo is absent, not a list or empty writes nothing
\* and emits nothing, and is answered 400 once past the route's admin guard.
C8_CreateNeedsAssignees ==
    (/\ Answered("create")
     /\ \/ "assignedTo" \notin resp.body.has
        \/ ~resp.body.assignedToIsArray
        \/ resp.body.assignedTo = <<>>) =>
        /\ tasks = before
        /\ emitted = <<>>
        /\ resp.code = IF resp.impl = "router" /\ ~IsAdmin(resp.user) THEN 403 ELSE 400

C8_Witness ==
    /\ Answered("create")
    /\ "assignedTo" \in resp.body.has
    /\ resp.body.assignedToIsArray
    /\ resp.body.assignedTo = <<>>
    /\ IsAdmin(resp.user)
    /\ resp.code = 400

\* C9: a create whose assignedTo names an existing but inactive user is
\* answered 400 and persists no task (for a requester the route admits).
C9_CreateRejectsInactive ==
    (/\ Answered("create")
     /\ "assignedTo" \in resp.body.has /\ resp.body.assignedToIsArray
     /\ \E v \in SeqToSet(resp.body.assignedTo) : v \in DOMAIN users /\ ~users[v].isActive
     /\ (resp.impl = "router" => IsAdmin(resp.user))) =>
        resp.code = 400 /\ tasks = before

\* C10: an update by an admin or the creator whose assignedTo names an id that
\* resolves to no active user is answered 400, leaves the stored task as it
\* was and emits nothing.
C10_UpdateRejectsInactive ==
    (/\ Answered("update") /\ OnExistingTask
     /\ "assignedTo" \in resp.body.has
     /\ \E v \in SeqToSet(resp.body.assignedTo) : v \notin DOMAIN users \/ ~users[v].isActive
     /\ (IsAdmin(resp.user) \/ resp.user = before[resp.id].assignedBy)) =>
        resp.code = 400 /\ tasks = before /\ emitted = <<>>

\* C11: a successful update or bulk update leaves assignedBy of every stored
\* task as it was (it is set to the creator on create and by nothing else).
C11_AssignedByImmutable ==
    ((Answered("update") \/ Answered("bulk")) /\ resp.code = 200) =>
        \A id \in DOMAIN before \cap DOMAIN tasks :
            tasks[id].assignedBy = before[id].assignedBy

\* The fields of a stored task that a request left out are as they were.
AbsentFieldsKept(t0, t1, b) ==
    /\ "title" \notin b.has => t1.title = t0.title
    /\ "description" \notin b.has => t1.description = t0.description
    /\ "status" \notin b.has => t1.status = t0.status
    /\ "priority" \notin b.has => t1.priority = t0.priority
    /\ "assignedTo" \notin b.has => t1.assignedTo = t0.assignedTo
    /\ "dueDate" \notin b.has => t1.dueDate = t0.dueDate

\* The status, priority, assignedTo and dueDate a request carries are stored.
SentFieldsStored(t1, b) ==
    /\ "status" \in b.has => t1.status = b.status
    /\ "priority" \in b.has => t1.priority = b.priority
    /\ "assignedTo" \in b.has => t1.assignedTo = b.assignedTo
    /\ "dueDate" \in b.has => t1.dueDate = NewDate(b.dueDate)

\* C12 (as stated): after a successful update every field absent from the
\* request keeps its stored value and every field present takes exactly the
\* requested value.
C12_PartialUpdateExact ==
    (Answered("update") /\ OnExistingTask /\ resp.code = 200) =>
        LET t0 == before[resp.id]
            t1 == tasks[resp.id]
        IN /\ AbsentFieldsKept(t0, t1, resp.body)
           /\ SentFieldsStored(t1, resp.body)
           /\ "title" \in resp.body.has => t1.title = resp.body.title
           /\ "description" \in resp.body.has => t1.description = resp.body.description

\* C12 (amended): after a successful update every field absent from the
\* request keeps its stored value; status, priority, assignedTo and dueDate
\* take the requested value, and title and description take the requested
\* value either as sent or with its surrounding whitespace removed.
C12_PartialUpdate ==
    (Answered("update") /\ OnExistingTask /\ resp.code = 200) =>
        LET t0 == before[resp.id]
            t1 == tasks[resp.id]
        IN /\ AbsentFieldsKept(t0, t1, resp.body)
           /\ SentFieldsStored(t1, resp.body)
           /\ "title" \in resp.body.has =>
                 t1.title \in {resp.body.title, Trim(resp.body.title)}
           /\ "description" \in resp.body.has =>
                 t1.description \in {resp.body.description, Trim(resp.body.description)}

C12_Witness ==
    /\ Answered("update") /\ OnExistingTask /\ resp.code = 200
    /\ resp.body.has = {"title"}
    /\ tasks[resp.id].title # before[resp.id].title
    /\ before[resp.id].status = "done"
    /\ tasks[resp.id].status = "done"
    /\ before[resp.id].priority = "high"

\* C13: a GET answered 200 for a task that is still as its create request
\* left it returns the title, description, assignedTo and dueDate of that
\* request, the creator as assignedBy, the requested priority or medium when
\* none was sent, and status todo when none was sent.
C13_CreateThenGet ==
    (Answered("get") /\ resp.code = 200 /\ created.id = resp.id) =>
        LET b == created.body
            t == out.task
        IN /\ t.title = b.title
           /\ t.description = b.description
           /\ t.assignedTo = b.assignedTo
           /\ t.assignedBy = created.user
           /\ IF "dueDate" \in b.has
                THEN NewDate(t.dueDate) = NewDate(b.dueDate) /\ t.dueDate # ""
                ELSE t.dueDate = ""
           /\ t.priority = IF "priority" \in b.has THEN b.priority ELSE "medium"
           /\ "status" \notin b.has => t.status = "todo"

C13_Witness ==
    /\ Answered("get") /\ resp.code = 200 /\ created.id = resp.id
    /\ resp.user # created.user
    /\ created.body.has = {"title", "description", "assignedTo", "priority", "dueDate"}
    /\ out.task.priority = "high"
    /\ out.task.dueDate = "2020-01-01T00:00:00.000Z"
    /\ out.task.status = "todo"

\* C14: a create answered 201 emits taskAssigned to the room of every id in
\* the stored assignedTo and taskCreated to the room of the creator; a create
\* answered anything else emits nothing.
C14_CreateNotifies ==
    Answered("create") =>
        IF resp.code = 201
          THEN /\ resp.id \in DOMAIN tasks
               /\ \A v \in Assignees(tasks[resp.id]) : EventsTo(v, "taskAssigned") # {}
               /\ EventsTo(tasks[resp.id].assignedBy, "taskCreated") # {}
               /\ tasks[resp.id].assignedBy = resp.user
          ELSE emitted = <<>>

C14_Witness ==
    /\ Answered("create") /\ resp.code = 201
    /\ Assignees(tasks[resp.id]) = {"u1", "u2"}
    /\ resp.user = "u3"
    /\ EventsTo("u1", "taskAssigned") # {}
    /\ EventsTo("u2", "taskAssigned") # {}
    /\ EventsTo("u3", "taskCreated") # {}
    /\ EventsTo("u3", "taskAssigned") = {}

\* C15: a delete answered 200 emits taskDeleted, carrying the task's id, to
\* every assignee the task had, to its assignedBy, and to the requester when
\* the requester is an admin.
C15_DeleteNotifies ==
    (Answered("delete") /\ OnExistingTask /\ resp.code = 200) =>
        /\ \A i \in DOMAIN emitted : emitted[i].task = resp.id
        /\ \A v \in Assignees(before[resp.id]) : EventsTo(v, "taskDeleted") # {}
        /\ EventsTo(before[resp.id].assignedBy, "taskDeleted") # {}
        /\ IsAdmin(resp.user) => EventsTo(resp.user, "taskDeleted") # {}

\* The tasks a requester may see: all for an admin, otherwise those the
\* requester is assigned to or created.
Visible(u, store) ==
    {id \in DOMAIN store :
        IsAdmin(u) \/ u \in Assignees(store[id]) \/ u = store[id].assignedBy}

\* C16: a list response holds, for an admin, every stored task and, for a
\* non-admin, exactly the tasks the requester is assigned to or created.
C16_ListIsVisibleTasks ==
    Answered("list") => SeqToSet(out.tasks) = Visible(resp.user, tasks)

RECURSIVE SumOver(_, _)
SumOver(f, S) ==
    IF S = {} THEN 0
    ELSE LET x == CHOOSE y \in S : TRUE IN f[x] + SumOver(f, S \ {x})

\* C17: a stats response counts exactly the tasks visible to the requester:
\* total is their number, byStatus[s] the number of them with status s (so the
\* byStatus counts add up to total), overdue the number of them not done and
\* due in the past; also when other requests changed tasks meanwhile.
C17_StatsCountVisibleTasks ==
    Answered("stats") =>
        LET seen == Visible(resp.user, tasks)
        IN /\ out.total = Cardinality(seen)
           /\ \A s \in Statuses :
                 Cardinality({id \in seen : tasks[id].status = s})
                    = IF s \in DOMAIN out.byStatus THEN out.byStatus[s] ELSE 0
           /\ SumOver(out.byStatus, DOMAIN out.byStatus) = out.total
           /\ out.overdue = Cardinality({id \in seen : /\ tasks[id].status # "done"
                                                        /\ tasks[id].dueDate # NoDate
                                                        /\ tasks[id].dueDate < Now})

\* C18: an update or delete that resumes from its await to find the task it
\* loaded deleted meanwhile answers 404 and emits nothing.
C18_ConcurrentDeleteIsNotFound ==
    (flight.op = "written" /\ resp.id \notin DOMAIN before) =>
        resp.code = 404 /\ emitted = <<>>

\* C19: a create, update or delete that has written its change to the store
\* is answered with its success code (201 or 200), whatever happens while its
\* notifications are pushed.
C19_PersistedMeansSuccess ==
    (resp.op \in {"create", "update", "delete"} /\ tasks # before) =>
        resp.code = IF resp.op = "create" THEN 201 ELSE 200

\* C20: a connection is admitted only with a token that verifies and names an
\* existing user; an admitted connection is in the room of its user id and in
\* the room of its role for as long as it is open; a connection whose token
\* is missing or invalid is in no room.
C20_AdmittedJoinUserAndRole ==
    \A c \in DOMAIN sockets :
        /\ sockets[c].state = "admitted" =>
              /\ sockets[c].token.kind = "valid"
              /\ sockets[c].token.id \in DOMAIN users
              /\ sockets[c].token.id \in sockets[c].rooms
              /\ users[sockets[c].token.id].role \in sockets[c].rooms
        /\ sockets[c].token.kind # "valid" => sockets[c].rooms = {}

\* The events of the request being answered that target user v, in order.
TargetedAt(v) == SelectSeq(emitted, LAMBDA e : e.room = ObjectIdToString(v))

\* C21: every connection admitted for user U holds exactly the events the
\* request being answered targeted at U, one copy of each, when it was open
\* as they were emitted, and none of them when it connected afterwards; a
\* refused connection holds none.
C21_DeliveredToBoundConnections ==
    \A c \in DOMAIN sockets :
        sockets[c].received =
            IF sockets[c].state = "admitted" /\ ~sockets[c].late
              THEN TargetedAt(sockets[c].token.id)
              ELSE <<>>

\* C22: GET /tasks/:id answers 400 for a malformed id, otherwise 404 when no
\* task has the id, otherwise 403 when the requester is neither admin, assignee
\* nor creator, otherwise 200; in that order, and never 500.
C22_GetStatusOrder ==
    Answered("get") =>
        resp.code =
            IF ~ObjectIdIsValid(resp.id) THEN 400
            ELSE IF resp.id \notin DOMAIN before THEN 404
            ELSE IF ~(\/ IsAdmin(resp.user)
                      \/ resp.user \in Assignees(before[resp.id])
                      \/ resp.user = before[resp.id].assignedBy) THEN 403
            ELSE 200

\* C23: an update carrying only a status of the four, by an admin, the creator
\* or an assignee, is answered 200 and stores that status whatever the status
\* before (no ordering is enforced), and the stored status of every task is
\* one of todo, in-progress, review, done.
C23_FlatStatusMachine ==
    /\ \A id \in DOMAIN tasks : tasks[id].status \in Statuses
    /\ (/\ Answered("update") /\ OnExistingTask
        /\ resp.body.has = {"status"} /\ resp.body.status \in Statuses
        /\ \/ IsAdmin(resp.user)
           \/ resp.user = before[resp.id].assignedBy
           \/ resp.user \in Assignees(before[resp.id])) =>
           /\ resp.code = 200
           /\ tasks[resp.id].status = resp.body.status

\* C24: a status-only update by a requester who is neither admin nor creator
\* changes the stored task only if the requester is in the task's assignedTo
\* as the write is applied (`before` is the store the write found).
C24_StatusWriteNeedsAssignee ==
    (/\ Answered("update") /\ OnExistingTask
     /\ resp.body.has = {"status"}
     /\ ~IsAdmin(resp.user)
     /\ resp.user # before[resp.id].assignedBy
     /\ resp.user \notin Assignees(before[resp.id])) =>
        tasks = before

\* C25: among the events of one update or delete, no user-id room is sent the
\* same event name (taskUpdated, taskDeleted) more than once.
C25_OneEventPerUser ==
    (Answered("update") \/ Answered("delete")) =>
        \A v \in DOMAIN users, e \in {"taskUpdated", "taskDeleted"} :
            Cardinality(EventsTo(v, e)) <= 1

\* C26: every stored task has at least one assignee, in every reachable state.
C26_AssignedToNeverEmpty ==
    \A id \in DOMAIN tasks : tasks[id].assignedTo # <<>>

\* C27: a create with non-empty title and description and a non-empty
\* assignedTo list whose ids all name active users is answered 201, whether or
\* not the list repeats an id (for a requester the route admits).
C27_CreateAcceptsResolvableLists ==
    (/\ Answered("create")
     /\ "title" \in resp.body.has /\ resp.body.title # ""
     /\ "description" \in resp.body.has /\ resp.body.description # ""
     /\ "assignedTo" \in resp.body.has /\ resp.body.assignedToIsArray
     /\ resp.body.assignedTo # <<>>
     /\ \A v \in SeqToSet(resp.body.assignedTo) : v \in DOMAIN users /\ users[v].isActive
     /\ (resp.impl = "router" => IsAdmin(resp.user))) =>
        resp.code = 201

\* C28: a task request is answered 401 exactly when its token's user is no
\* longer stored, and then writes and emits nothing; otherwise what the
\* requester's role decides is decided by the role stored now, whatever role
\* the token was signed with: an update or delete of another user's task is
\* refused (403) exactly when the stored role is not admin, and a read of a
\* task is granted to a stored admin and to no stored non-admin who is
\* neither assignee nor creator.
C28_StoredRoleDecides ==
    /\ resp.op \in {"get", "create", "update", "delete"} =>
          /\ (resp.code = 401) <=> (resp.user \notin DOMAIN users)
          /\ (resp.code = 401) => (tasks = before /\ emitted = <<>>)
    /\ (/\ resp.op \in {"update", "delete"} /\ OnExistingTask
        /\ resp.user \in DOMAIN users
        /\ resp.user # before[resp.id].assignedBy) =>
          ((resp.code = 403) <=> ~IsAdmin(resp.user))
    /\ (Answered("get") /\ OnExistingTask /\ resp.user \in DOMAIN users) =>
          /\ IsAdmin(resp.user) => resp.code = 200
          /\ (/\ ~IsAdmin(resp.user)
              /\ resp.user \notin Assignees(before[resp.id])
              /\ resp.user # before[resp.id].assignedBy) => resp.code # 200

\* A user whose only tokens were signed as admin, stored as user now, is
\* refused the update of another user's task.
C28_Witness ==
    /\ Answered("update") /\ OnExistingTask
    /\ resp.user \in DOMAIN users
    /\ \A t \in issued : t.id = resp.user => t.role = "admin"
    /\ users[resp.user].role = "user"
    /\ resp.user # before[resp.id].assignedBy
    /\ resp.code = 403

\* C29: every stored leave is pending with no approvedBy, or approved or
\* rejected with approvedBy set; a leave request stores a pending leave with
\* no approvedBy; a decision stores the status sent and the deciding admin as
\* approvedBy and nothing else; and no leave request or decision takes a
\* leave that was approved or rejected back to pending.
C29_LeaveDecisions ==
    /\ \A id \in DOMAIN leaves :
          /\ leaves[id].status \in {"pending", "approved", "rejected"}
          /\ (leaves[id].status \in {"approved", "rejected"}) <=> (leaves[id].approvedBy # NoUser)
    /\ Answered("requestLeave") =>
          IF resp.code = 201
            THEN /\ resp.id \notin DOMAIN before
                 /\ DOMAIN leaves = DOMAIN before \cup {resp.id}
                 /\ leaves[resp.id].status = "pending"
                 /\ leaves[resp.id].approvedBy = NoUser
                 /\ leaves[resp.id].user = resp.user
                 /\ \A id \in DOMAIN before : leaves[id] = before[id]
            ELSE leaves = before
    /\ Answered("decide") =>
          IF resp.code = 200
            THEN /\ IsAdmin(resp.user)
                 /\ resp.body.status \in {"approved", "rejected"}
                 /\ leaves = [before EXCEPT ![resp.id].status = resp.body.status,
                                            ![resp.id].approvedBy = resp.user]
            ELSE leaves = before
    /\ resp.op \in {"requestLeave", "decide"} =>
          \A id \in DOMAIN before :
              before[id].status # "pending" => leaves[id].status # "pending"

\* A leave approved by one admin is rejected by another.
C29_Witness ==
    /\ Answered("decide") /\ resp.code = 200
    /\ before[resp.id].status = "approved"
    /\ before[resp.id].approvedBy = "u1"
    /\ leaves[resp.id].status = "rejected"
    /\ leaves[resp.id].approvedBy = "u2"

\* C30: no two stored projects have names that are equal ignoring letter case.
C30_ProjectNamesUnique ==
    \A i, j \in DOMAIN projects :
        i # j => ToLowerCase(projects[i].name) # ToLowerCase(projects[j].name)

====
